---- MODULE Spec2Model ----
(***************************************************************************)
(* Model of prefect/tasks/census/census.py: CensusSyncTask.run, which      *)
(* validates a Census api_trigger URL, POSTs to it and then polls the sync  *)
(* run's status endpoint until the status is no longer "working".           *)
(*                                                                         *)
(* Python strings whose characters matter (URLs, the regular expression)   *)
(* are sequences of one-character strings.  Python's None is the sentinel  *)
(* sequence None, which no character sequence equals.  A Python dict is a   *)
(* function whose domain is its set of keys.                                *)
(***************************************************************************)
EXTENDS Integers, Sequences, FiniteSets, TLC

\* ------------------------------------------------------------------------
\* Module constants (census.py line 10)
\* ------------------------------------------------------------------------
MIN_WAIT_TIME == 5
DEFAULT_WAIT_TIME == 60

\* ------------------------------------------------------------------------
\* Bounds of the model
\* ------------------------------------------------------------------------
\* The poll loop has no cap in the code; the model stops sleeping after this
\* many GET requests.
MaxPolls == 3
\* Supplied poll intervals range over (0 - PollSpread)..(MIN_WAIT_TIME + PollSpread).
PollSpread == 2

None == <<"None">>
EmptyDict == [k \in {} |-> k]

Max(a, b) == IF a >= b THEN a ELSE b

\* ------------------------------------------------------------------------
\* The regular expression of line 61 and re.match (lines 61-65)
\* ------------------------------------------------------------------------
\* Pattern tokens: a one-character string is that literal character (the
\* pattern's "\/" is the literal "/"), "." is the wildcard, and the two
\* capture groups are GROUP_ANY for (.*) and GROUP_DIGITS for (\d*).
GROUP_ANY == "(.*)"
GROUP_DIGITS == "(\\d*)"

pattern ==
  <<"h","t","t","p","s",":","/","/","b","e","a","r","e","r",":",
    "s","e","c","r","e","t","-","t","o","k","e","n",":",
    GROUP_ANY,
    "@","a","p","p",".","g","e","t","c","e","n","s","u","s",".","c","o","m",
    "/","a","p","i","/","v","1","/","s","y","n","c","s","/",
    GROUP_DIGITS,
    "/","t","r","i","g","g","e","r">>

IsDigit(c) == c \in {"0","1","2","3","4","5","6","7","8","9"}

\* One pattern token against one character: "." matches anything but a newline.
TokenMatches(tok, c) == IF tok = "." THEN c # "\n" ELSE c = tok

\* The character class a starred group repeats.
InClass(tok, c) == IF tok = GROUP_ANY THEN c # "\n" ELSE IsDigit(c)

SetMin(S) == CHOOSE x \in S : \A y \in S : x <= y
SetMax(S) == CHOOSE x \in S : \A y \in S : x >= y

\* Length of the longest run of class characters of s starting at index i.
RunLen(tok, s, i) ==
  LET stops == { j \in i..Len(s) : ~InClass(tok, s[j]) }
  IN  IF stops = {} THEN Len(s) - i + 1 ELSE SetMin(stops) - i

\* Index of the first group token at or after pi, or Len(pattern) + 1.
NextGroup(pi) ==
  LET gs == { j \in pi..Len(pattern) : pattern[j] \in {GROUP_ANY, GROUP_DIGITS} }
  IN  IF gs = {} THEN Len(pattern) + 1 ELSE SetMin(gs)

\* The single-character tokens pi..e-1 against s from index i.
LiteralsMatch(pi, e, s, i) ==
  /\ i + (e - pi) - 1 <= Len(s)
  /\ \A j \in pi..(e - 1) : TokenMatches(pattern[j], s[i + (j - pi)])

NoMatch == [matched |-> FALSE, groups |-> <<>>]

\* Backtracking match of pattern tokens pi.. against s from index i, with the
\* groups captured so far in g.  The pattern has no end anchor: the match
\* succeeds as soon as the pattern is used up.  A starred group is greedy: of
\* the run lengths for which the rest of the pattern matches, the regular
\* expression engine finds the longest first.
RECURSIVE MatchHere(_, _, _, _)
RECURSIVE MatchStar(_, _, _, _, _)
MatchHere(pi, s, i, g) ==
  IF pi > Len(pattern) THEN [matched |-> TRUE, groups |-> g]
  ELSE IF pattern[pi] \in {GROUP_ANY, GROUP_DIGITS}
       THEN MatchStar(pi, s, i, g, RunLen(pattern[pi], s, i))
  ELSE LET e == NextGroup(pi)
       IN  IF LiteralsMatch(pi, e, s, i)
           THEN MatchHere(e, s, i + (e - pi), g)
           ELSE NoMatch

MatchStar(pi, s, i, g, maxk) ==
  LET Rest(k) == MatchHere(pi + 1, s, i + k, Append(g, SubSeq(s, i, i + k - 1)))
      ks == { k \in 0..maxk : Rest(k).matched }
  IN  IF ks = {} THEN NoMatch ELSE Rest(SetMax(ks))

\* url_pattern.match(api_trigger): anchored at the start of the string only.
url_pattern_match(s) == MatchHere(1, s, 1, <<>>)

\* ------------------------------------------------------------------------
\* f-strings of lines 87 and 88
\* ------------------------------------------------------------------------
\* A variant of Format_sr_url that keeps the path of the trigger endpoint.
Format_sr_url_syncs_path(sec, run_id) ==
  <<"h","t","t","p","s",":","/","/","b","e","a","r","e","r",":","s","e","c",
    "r","e","t","-","t","o","k","e","n",":">>
  \o sec \o
  <<"@","a","p","p",".","g","e","t","c","e","n","s","u","s",".","c","o","m",
    "/","a","p","i","/","v","1","/","s","y","n","c","s","/">>
  \o run_id

Format_sr_url(sec, run_id) ==
  <<"h","t","t","p","s",":","/","/","b","e","a","r","e","r",":",
    "s","e","c","r","e","t","-","t","o","k","e","n",":">>
  \o sec \o
  <<"@","a","p","p",".","g","e","t","c","e","n","s","u","s",".","c","o","m",
    "/","a","p","i","/","v","1","/","s","y","n","c","_","r","u","n","s","/">>
  \o run_id

Format_log_url(sid) ==
  <<"h","t","t","p","s",":","/","/","a","p","p",".","g","e","t","c","e","n","s","u","s",".","c","o","m",
    "/","s","y","n","c","s","/">>
  \o sid \o
  <<"/","s","y","n","c","-","h","i","s","t","o","r","y">>

\* ------------------------------------------------------------------------
\* Inputs: the api_trigger strings a caller may pass
\* ------------------------------------------------------------------------
Prefixes ==
  { <<"h","t","t","p","s",":","/","/","b","e","a","r","e","r",":",
      "s","e","c","r","e","t","-","t","o","k","e","n",":">>,
    <<"h","t","t","p","s",":","/","/","b","e","a","r","e","r",":",
      "S","e","c","r","e","t","-","T","o","k","e","n",":">>,
    <<"h","t","t","p",":","/","/","b","e","a","r","e","r",":",
      "s","e","c","r","e","t","-","t","o","k","e","n",":">> }

Secrets == { <<>>, <<"s","3","c","r","3","t">>, <<"a","@","b">> }

Hosts ==
  { <<"@","a","p","p",".","g","e","t","c","e","n","s","u","s",".","c","o","m",
      "/","a","p","i","/","v","1","/","s","y","n","c","s","/">>,
    <<"@","a","p","p","X","g","e","t","c","e","n","s","u","s",".","c","o","m",
      "/","a","p","i","/","v","1","/","s","y","n","c","s","/">>,
    <<"@","a","p","p",".","g","e","t","c","e","n","s","u","s",".","c","o","m",
      "/","A","P","I","/","v","1","/","s","y","n","c","s","/">> }

SyncIds == { <<>>, <<"4","2">>, <<"4","a">> }

Suffixes ==
  { <<"/","t","r","i","g","g","e","r">>,
    <<"/","T","r","i","g","g","e","r">>,
    <<"/","t","r","i","g","g","e","r","/","x">> }

\* Every concatenation of the parts above, and two strings of no such form.
TriggerStrings ==
  { p \o sec \o h \o sid \o suf :
      p \in Prefixes, sec \in Secrets, h \in Hosts, sid \in SyncIds, suf \in Suffixes }
  \cup { <<"a","b","c">>, <<" ">> }

\* What may be passed as api_trigger, to the constructor or to run.
TriggerArgs == { None, <<>> } \cup TriggerStrings

PollArgs == (0 - PollSpread)..(MIN_WAIT_TIME + PollSpread)

\* ------------------------------------------------------------------------
\* HTTP responses: what the remote service may answer
\* ------------------------------------------------------------------------
HTTP_OK == 200
StatusCodes == { 200, 201, 500 }

\* Response bodies of the trigger POST.
TriggerBodies ==
  { "{\"status\":\"success\",\"data\":{\"sync_run_id\":\"r9\"}}",
    "{\"status\":\"success\",\"data\":{\"sync_run_id\":\"94\"}}",
    "{\"status\":\"success\",\"data\":{}}",
    "{\"status\":\"error\"}",
    "Unauthorized" }

\* Response bodies of the status GET.
PollBodies ==
  { "{\"data\":{\"status\":\"working\"}}",
    "{\"data\":{\"status\":\"completed\",\"records_processed\":10}}",
    "{\"data\":{\"status\":\"failed\",\"error_message\":\"boom\"}}",
    "{\"data\":{\"status\":\"skipped\"}}",
    "{\"data\":{\"records_processed\":10}}",
    "{\"status\":\"not_found\"}",
    "Bad Gateway" }

PostResponses == [status_code : StatusCodes, text : TriggerBodies]
GetResponses == [status_code : StatusCodes, text : PollBodies]
NoResponse == [status_code |-> 0, text |-> ""]

\* json.loads on the bodies above: the decoded object, or ok = FALSE where the
\* text is not JSON and Response.json() raises.
json_loads(text) ==
  CASE text = "{\"status\":\"success\",\"data\":{\"sync_run_id\":\"r9\"}}" ->
         [ok |-> TRUE, value |-> [status |-> "success", data |-> [sync_run_id |-> <<"r","9">>]]]
    [] text = "{\"status\":\"success\",\"data\":{\"sync_run_id\":\"94\"}}" ->
         [ok |-> TRUE, value |-> [status |-> "success", data |-> [sync_run_id |-> <<"9","4">>]]]
    [] text = "{\"status\":\"success\",\"data\":{}}" ->
         [ok |-> TRUE, value |-> [status |-> "success", data |-> EmptyDict]]
    [] text = "{\"status\":\"error\"}" ->
         [ok |-> TRUE, value |-> [status |-> "error"]]
    [] text = "{\"data\":{\"status\":\"working\"}}" ->
         [ok |-> TRUE, value |-> [data |-> [status |-> "working"]]]
    [] text = "{\"data\":{\"status\":\"completed\",\"records_processed\":10}}" ->
         [ok |-> TRUE, value |-> [data |-> [status |-> "completed", records_processed |-> 10]]]
    [] text = "{\"data\":{\"status\":\"failed\",\"error_message\":\"boom\"}}" ->
         [ok |-> TRUE, value |-> [data |-> [status |-> "failed", error_message |-> "boom"]]]
    [] text = "{\"data\":{\"status\":\"skipped\"}}" ->
         [ok |-> TRUE, value |-> [data |-> [status |-> "skipped"]]]
    [] text = "{\"data\":{\"records_processed\":10}}" ->
         [ok |-> TRUE, value |-> [data |-> [records_processed |-> 10]]]
    [] text = "{\"status\":\"not_found\"}" ->
         [ok |-> TRUE, value |-> [status |-> "not_found"]]
    [] OTHER -> [ok |-> FALSE, value |-> EmptyDict]

\* ------------------------------------------------------------------------
\* Exceptions
\* ------------------------------------------------------------------------
\* An exception is its Python type, the message text as written in the source
\* (an f-string keeps its placeholders) and the values interpolated into it.
MSG_MISSING == "Value for parameter api_trigger must be provided."
MSG_INVALID == "Invalid parameter for api_trigger"
MSG_POST == "Sent POST, failed with status code {response.status_code}: {response.text}."
MSG_POLL == "Getting status of sync failed, please visit Census Logs at {log_url} to see more."

NoError == [type |-> "", msg |-> "", args |-> <<>>]
ValueError(m, a) == [type |-> "ValueError", msg |-> m, args |-> a]
KeyError(k) == [type |-> "KeyError", msg |-> k, args |-> <<>>]
JSONDecodeError == [type |-> "JSONDecodeError", msg |-> "", args |-> <<>>]

\* ------------------------------------------------------------------------
\* State
\* ------------------------------------------------------------------------
VARIABLES
  self_api_trigger,             \* self.api_trigger, set by __init__
  kwargs,                       \* the keyword arguments of the call of run
  pc,                           \* where run is
  api_trigger,                  \* run's parameters
  poll_status_every_n_seconds,
  secret, sync_id,              \* confirmed_pattern.groups()
  response,                     \* the trigger response
  sleep_time, sync_run_id, sr_url, log_url,
  result, start_time,
  status_response,              \* the latest poll response
  now,                          \* time.time(), in seconds
  trace,                        \* requests, sleeps and log records, in order
  responses,                    \* every poll response received, in order
  returned,                     \* the value run returned
  raised                        \* the exception run raised

vars == << self_api_trigger, kwargs, pc, api_trigger, poll_status_every_n_seconds,
           secret, sync_id, response, sleep_time, sync_run_id, sr_url, log_url,
           result, start_time, status_response, now, trace, responses,
           returned, raised >>

locals == << secret, sync_id, response, sleep_time, sync_run_id, sr_url, log_url,
             result, start_time, status_response >>

Event(o, a) == [op |-> o, arg |-> a]

\* __init__ (lines 26-28); run has not been called.  Locals not yet bound hold
\* an empty value of their type.
Init ==
  /\ self_api_trigger \in { None,
       <<"h","t","t","p","s",":","/","/","b","e","a","r","e","r",":",
         "s","e","c","r","e","t","-","t","o","k","e","n",":",
         "d","f","l","t",
         "@","a","p","p",".","g","e","t","c","e","n","s","u","s",".","c","o","m",
         "/","a","p","i","/","v","1","/","s","y","n","c","s","/","7",
         "/","t","r","i","g","g","e","r">> }
  /\ kwargs = EmptyDict
  /\ pc = "idle"
  /\ api_trigger = None
  /\ poll_status_every_n_seconds = 0
  /\ secret = <<>> /\ sync_id = <<>>
  /\ response = NoResponse
  /\ sleep_time = 0
  /\ sync_run_id = <<>> /\ sr_url = <<>> /\ log_url = <<>>
  /\ result = EmptyDict
  /\ start_time = 0
  /\ status_response = NoResponse
  /\ now = 0
  /\ trace = <<>>
  /\ responses = <<>>
  /\ returned = EmptyDict
  /\ raised = NoError

\* The keyword arguments a caller may pass: api_trigger always (None for
\* "not given"), poll_status_every_n_seconds optionally.
CallKwargs ==
  { [api_trigger |-> t] : t \in TriggerArgs }
  \cup { [api_trigger |-> t, poll_status_every_n_seconds |-> n] :
           t \in TriggerArgs, n \in PollArgs }

\* @defaults_from_attrs("api_trigger") (line 30, docstring lines 45-46): an
\* argument that is None is replaced by the attribute of the task.
defaults_from_attrs(arg, attr) == IF arg = None THEN attr ELSE arg

\* The default of the signature (line 32).
PollArgument(kw) ==
  IF "poll_status_every_n_seconds" \in DOMAIN kw
  THEN kw.poll_status_every_n_seconds
  ELSE DEFAULT_WAIT_TIME

\* The call of run: binds the parameters (lines 30-33).
Call ==
  /\ pc = "idle"
  /\ \E kw \in CallKwargs :
       /\ kwargs' = kw
       /\ api_trigger' = defaults_from_attrs(kw.api_trigger, self_api_trigger)
       /\ poll_status_every_n_seconds' = PollArgument(kw)
  /\ pc' = "check_trigger"
  /\ UNCHANGED << self_api_trigger, locals, now, trace, responses, returned, raised >>

\* A variant of Falsy that is `api_trigger is None`.
Falsy_only_none(s) == s = None

\* `not api_trigger`: None and the empty string are falsy.
Falsy(s) == s = None \/ s = <<>>

\* Lines 55-59.
CheckTrigger ==
  /\ pc = "check_trigger"
  /\ IF Falsy(api_trigger)
     THEN /\ raised' = ValueError(MSG_MISSING, <<>>)
          /\ pc' = "raised"
     ELSE /\ pc' = "match"
          /\ UNCHANGED raised
  /\ UNCHANGED << self_api_trigger, kwargs, api_trigger, poll_status_every_n_seconds,
                  locals, now, trace, responses, returned >>

\* Lines 61-73.
MatchTrigger ==
  /\ pc = "match"
  /\ LET confirmed_pattern == url_pattern_match(api_trigger)
     IN  IF ~confirmed_pattern.matched
         THEN /\ raised' = ValueError(MSG_INVALID, <<>>)
              /\ pc' = "raised"
              /\ UNCHANGED << secret, sync_id >>
         ELSE /\ secret' = confirmed_pattern.groups[1]
              /\ sync_id' = confirmed_pattern.groups[2]
              /\ pc' = "post"
              /\ UNCHANGED raised
  /\ UNCHANGED << self_api_trigger, kwargs, api_trigger, poll_status_every_n_seconds,
                  response, sleep_time, sync_run_id, sr_url, log_url, result,
                  start_time, status_response, now, trace, responses, returned >>

\* ------------------------------------------------------------------------
\* Trigger phase
\* ------------------------------------------------------------------------
\* A variant of TriggerFailed that takes only 4xx and 5xx for failures.
TriggerFailed_only_errors(resp) == resp.status_code >= 400

\* Line 76.
TriggerFailed(resp) == resp.status_code # HTTP_OK

\* Lines 74-78: requests.post(api_trigger) and the check of its status code.
Post ==
  /\ pc = "post"
  /\ \E resp \in PostResponses :
       /\ response' = resp
       /\ trace' = Append(trace, Event("POST", api_trigger))
       /\ IF TriggerFailed(resp)
          THEN /\ raised' = ValueError(MSG_POST, <<resp.status_code, resp.text>>)
               /\ pc' = "raised"
          ELSE /\ pc' = "start"
               /\ UNCHANGED raised
  /\ UNCHANGED << self_api_trigger, kwargs, api_trigger, poll_status_every_n_seconds,
                  secret, sync_id, sleep_time, sync_run_id, sr_url, log_url, result,
                  start_time, status_response, now, responses, returned >>

\* A variant of EffectiveInterval that applies the floor to non-positive
\* values only.
EffectiveInterval_floor_nonpositive(n) == IF n > 0 THEN n ELSE MIN_WAIT_TIME

\* Line 80.
EffectiveInterval(n) == Max(MIN_WAIT_TIME, n)

LOG_STARTED == "Started Census sync {sync_id}, sleep time set to {sleep_time} seconds."
LOG_RUNNING == "Sync {sync_id} still running after {elapsed} seconds."
LOG_FINISHED == "Sync {sync_id} has finished running after {elapsed} seconds."
LOG_DETAILS == "View details here: {log_url}."

\* Lines 80-92: the sleep time, the first log record, the run identifier of
\* the trigger response and the two URLs.  response.json() raises when the
\* body is not JSON, and each subscript raises KeyError when its key is absent.
StartSync ==
  /\ pc = "start"
  /\ sleep_time' = EffectiveInterval(poll_status_every_n_seconds)
  /\ trace' = Append(trace, Event("log", <<LOG_STARTED, sync_id, sleep_time'>>))
  /\ LET decoded == json_loads(response.text)
         body == decoded.value
     IN  IF ~decoded.ok
         THEN /\ raised' = JSONDecodeError
              /\ pc' = "raised"
              /\ UNCHANGED << sync_run_id, sr_url, log_url, result, start_time >>
         ELSE IF "data" \notin DOMAIN body
         THEN /\ raised' = KeyError("data")
              /\ pc' = "raised"
              /\ UNCHANGED << sync_run_id, sr_url, log_url, result, start_time >>
         ELSE IF "sync_run_id" \notin DOMAIN body.data
         THEN /\ raised' = KeyError("sync_run_id")
              /\ pc' = "raised"
              /\ UNCHANGED << sync_run_id, sr_url, log_url, result, start_time >>
         ELSE /\ sync_run_id' = body.data.sync_run_id
              /\ sr_url' = Format_sr_url(secret, sync_run_id')
              /\ log_url' = Format_log_url(sync_id)
              /\ result' = EmptyDict
              /\ start_time' = now
              /\ pc' = "sleep"
              /\ UNCHANGED raised
  /\ UNCHANGED << self_api_trigger, kwargs, api_trigger, poll_status_every_n_seconds,
                  secret, sync_id, response, status_response, now, responses, returned >>

\* ------------------------------------------------------------------------
\* Poll phase
\* ------------------------------------------------------------------------
\* A variant of Sleep that does not sleep before the first request.
Sleep_skip_first ==
  /\ pc = "sleep"
  /\ Len(responses) < MaxPolls
  /\ IF responses = <<>>
     THEN UNCHANGED << trace, now >>
     ELSE /\ trace' = Append(trace, Event("sleep", sleep_time))
          /\ now' = now + sleep_time
  /\ pc' = "get"
  /\ UNCHANGED << self_api_trigger, kwargs, api_trigger, poll_status_every_n_seconds,
                  locals, responses, returned, raised >>

\* A variant of Sleep with an iteration cap: after two polls it gives up and
\* leaves the loop.
Sleep_gives_up ==
  /\ pc = "sleep"
  /\ Len(responses) < MaxPolls
  /\ IF Len(responses) >= 2
     THEN /\ pc' = "finish"
          /\ UNCHANGED << trace, now >>
     ELSE /\ trace' = Append(trace, Event("sleep", sleep_time))
          /\ now' = now + sleep_time
          /\ pc' = "get"
  /\ UNCHANGED << self_api_trigger, kwargs, api_trigger, poll_status_every_n_seconds,
                  locals, responses, returned, raised >>

\* Line 94: time.sleep(sleep_time).  The model stops after MaxPolls requests.
Sleep ==
  /\ pc = "sleep"
  /\ Len(responses) < MaxPolls
  /\ trace' = Append(trace, Event("sleep", sleep_time))
  /\ now' = now + sleep_time
  /\ pc' = "get"
  /\ UNCHANGED << self_api_trigger, kwargs, api_trigger, poll_status_every_n_seconds,
                  locals, responses, returned, raised >>

\* A variant of PollFailed that does not look at the status code.
PollFailed_ignores_status(resp, response_dict) == "data" \notin DOMAIN response_dict

\* Line 97.
PollFailed(resp, response_dict) ==
  resp.status_code # HTTP_OK \/ "data" \notin DOMAIN response_dict

\* Variants of StillWorking: loop until "completed"; the test inverted.
StillWorking_until_completed(status) == status # "completed"
StillWorking_inverted(status) == status # "working"

\* Line 103.
StillWorking(status) == status = "working"

\* Lines 95-108: one status request and what the loop does with the answer.
\* status_response.json() is called before the status code is looked at.
Get ==
  /\ pc = "get"
  /\ \E resp \in GetResponses :
       LET decoded == json_loads(resp.text)
           response_dict == decoded.value
           requested == Append(trace, Event("GET", sr_url))
       IN  /\ status_response' = resp
           /\ responses' = Append(responses, resp)
           /\ IF ~decoded.ok
              THEN /\ raised' = JSONDecodeError
                   /\ pc' = "raised"
                   /\ trace' = requested
                   /\ UNCHANGED result
              ELSE IF PollFailed(resp, response_dict)
              THEN /\ raised' = ValueError(MSG_POLL, <<log_url>>)
                   /\ pc' = "raised"
                   /\ trace' = requested
                   /\ UNCHANGED result
              ELSE /\ result' = response_dict.data
                   /\ IF "status" \notin DOMAIN result'
                      THEN /\ raised' = KeyError("status")
                           /\ pc' = "raised"
                           /\ trace' = requested
                      ELSE IF StillWorking(result'.status)
                      THEN /\ trace' = Append(requested,
                                  Event("log", <<LOG_RUNNING, sync_id, now - start_time>>))
                           /\ pc' = "sleep"
                           /\ UNCHANGED raised
                      ELSE /\ trace' = requested
                           /\ pc' = "finish"
                           /\ UNCHANGED raised
  /\ UNCHANGED << self_api_trigger, kwargs, api_trigger, poll_status_every_n_seconds,
                  secret, sync_id, response, sleep_time, sync_run_id, sr_url, log_url,
                  start_time, now, returned >>

\* A variant of Finish that leaves out the log record with the log URL.
Finish_without_details ==
  /\ pc = "finish"
  /\ trace' = Append(trace, Event("log", <<LOG_FINISHED, sync_id, now - start_time>>))
  /\ returned' = result
  /\ pc' = "returned"
  /\ UNCHANGED << self_api_trigger, kwargs, api_trigger, poll_status_every_n_seconds,
                  locals, now, responses, raised >>

\* Lines 110-125: the two closing log records and the return.
Finish ==
  /\ pc = "finish"
  /\ trace' = trace \o << Event("log", <<LOG_FINISHED, sync_id, now - start_time>>),
                          Event("log", <<LOG_DETAILS, log_url>>) >>
  /\ returned' = result
  /\ pc' = "returned"
  /\ UNCHANGED << self_api_trigger, kwargs, api_trigger, poll_status_every_n_seconds,
                  locals, now, responses, raised >>

Next ==
  \/ Call
  \/ CheckTrigger
  \/ MatchTrigger
  \/ Post
  \/ StartSync
  \/ Sleep
  \/ Get
  \/ Finish

Spec == Init /\ [][Next]_vars

\* ------------------------------------------------------------------------
\* Vocabulary of the properties
\* ------------------------------------------------------------------------
\* How many events of kind o the invocation has produced.
NumOps(o) == Cardinality({ i \in DOMAIN trace : trace[i].op = o })

\* The specification's two error classes.  The code raises ValueError for
\* both; they differ in where they are raised and in their messages.
ConfigurationError(e) == e.type = "ValueError" /\ e.msg \in { MSG_MISSING, MSG_INVALID }
RemoteServiceError(e) == e.type = "ValueError" /\ e.msg \in { MSG_POST, MSG_POLL }

\* A poll response with HTTP 200 and a data object that has a status.
HasStatus(r) ==
  /\ r.status_code = 200
  /\ json_loads(r.text).ok
  /\ "data" \in DOMAIN json_loads(r.text).value
  /\ "status" \in DOMAIN json_loads(r.text).value.data
DataOf(r) == json_loads(r.text).value.data
WorkingResponse(r) == HasStatus(r) /\ DataOf(r).status = "working"
TerminalResponse(r) == HasStatus(r) /\ DataOf(r).status # "working"

\* The poll responses so far are k "working" ones followed by a terminal one.
WorkingThenTerminal ==
  /\ responses # <<>>
  /\ TerminalResponse(responses[Len(responses)])
  /\ \A i \in 1..(Len(responses) - 1) : WorkingResponse(responses[i])

\* ------------------------------------------------------------------------
\* Properties
\* ------------------------------------------------------------------------
\* C1: when the poll responses are k >= 0 responses with HTTP 200 and status
\* "working" followed by one with HTTP 200 and a status other than "working",
\* run has issued exactly k+1 GET requests, has left the loop, issues no
\* further one, and what it returns is the data object of the last response.
C1_ReturnsTerminalPayload ==
  WorkingThenTerminal =>
    /\ pc \in { "finish", "returned" }
    /\ NumOps("GET") = Len(responses)
    /\ raised = NoError
    /\ result = DataOf(responses[Len(responses)])
    /\ pc = "finish" => ENABLED Finish
    /\ pc = "returned" => returned = DataOf(responses[Len(responses)])

\* C1's case: "working", "working", "completed" and the third payload returned.
C1_Witness ==
  /\ pc = "returned"
  /\ Len(responses) = 3
  /\ WorkingThenTerminal
  /\ returned = [status |-> "completed", records_processed |-> 10]

\* C2: when the trigger POST answers with a status code other than 200, run
\* raises the ValueError of line 78 carrying that status code and the response
\* body, and has neither slept nor issued a GET.
C2_TriggerFailureAborts ==
  (NumOps("POST") > 0 /\ response.status_code # 200) =>
    /\ pc = "raised"
    /\ RemoteServiceError(raised)
    /\ raised = ValueError(MSG_POST, << response.status_code, response.text >>)
    /\ NumOps("GET") = 0
    /\ NumOps("sleep") = 0
    /\ responses = <<>>

\* C2's case: a 201 answer to the trigger.
C2_Witness ==
  /\ pc = "raised"
  /\ NumOps("POST") = 1
  /\ response.status_code = 201
  /\ raised.args = << 201, "Unauthorized" >>

\* The latest poll response is one the claim C3 calls failing: not HTTP 200
\* (whatever its body), or a JSON body without "data".
C3_FailingPoll(r) ==
  \/ r.status_code # 200
  \/ json_loads(r.text).ok /\ "data" \notin DOMAIN json_loads(r.text).value

\* C3: when a poll response is not HTTP 200 or its body has no "data" key,
\* run raises the ValueError of line 98, whose message names the log URL of
\* the sync, and that response is the last one requested.
C3_PollFailureAborts ==
  (responses # <<>> /\ C3_FailingPoll(responses[Len(responses)])) =>
    /\ pc = "raised"
    /\ raised = ValueError(MSG_POLL, << Format_log_url(sync_id) >>)
    /\ NumOps("GET") = Len(responses)
    /\ NumOps("sleep") = Len(responses)

\* C4: when api_trigger is None or empty, run raises the ValueError of line 56
\* and performs no POST, no GET and no sleep.
C4_MissingTriggerRejected ==
  (pc \notin { "idle", "check_trigger" } /\ api_trigger \in { None, <<>> }) =>
    /\ pc = "raised"
    /\ ConfigurationError(raised)
    /\ raised = ValueError(MSG_MISSING, <<>>)
    /\ trace = <<>>
    /\ responses = <<>>

\* C4's case: the empty string passed to run, though the task has a default.
C4_Witness ==
  /\ pc = "raised"
  /\ kwargs.api_trigger = <<>>
  /\ self_api_trigger # None
  /\ api_trigger = <<>>
  /\ raised.msg = MSG_MISSING

\* The trigger shape of the documentation,
\* https://bearer:secret-token:<SECRET>@app.getcensus.com/api/v1/syncs/<SYNC_ID>/trigger,
\* read generously: any secret, any run of decimal digits, nothing after.
C5_HasTriggerShape(s) ==
  LET P == <<"h","t","t","p","s",":","/","/","b","e","a","r","e","r",":",
             "s","e","c","r","e","t","-","t","o","k","e","n",":">>
      H == <<"@","a","p","p",".","g","e","t","c","e","n","s","u","s",".","c","o","m",
             "/","a","p","i","/","v","1","/","s","y","n","c","s","/">>
      T == <<"/","t","r","i","g","g","e","r">>
  IN  \E a \in 0..Len(s) : \E b \in 0..Len(s) :
        /\ Len(s) = Len(P) + a + Len(H) + b + Len(T)
        /\ \A j \in (Len(P) + a + Len(H) + 1)..(Len(P) + a + Len(H) + b) : IsDigit(s[j])
        /\ s = P \o SubSeq(s, Len(P) + 1, Len(P) + a) \o H
                 \o SubSeq(s, Len(P) + a + Len(H) + 1, Len(P) + a + Len(H) + b) \o T

\* C5: a non-empty api_trigger that does not have the trigger shape makes run
\* raise the ValueError of line 68 before any request: once validation and the
\* POST step are behind, run has raised it and issued no POST and no GET.
C5_MalformedTriggerRejected ==
  ( /\ pc \notin { "idle", "check_trigger", "match", "post" }
    /\ api_trigger \notin { None, <<>> }
    /\ ~C5_HasTriggerShape(api_trigger) ) =>
    /\ pc = "raised"
    /\ ConfigurationError(raised)
    /\ NumOps("POST") = 0
    /\ NumOps("GET") = 0

\* C6: once the sleep time is set it is max(5, poll_status_every_n_seconds):
\* 5 for every supplied value <= 5, the supplied value when that is > 5, and
\* 60 when the caller supplied none; every sleep of the invocation lasts it.
C6_EffectiveInterval ==
  NumOps("log") > 0 =>
    LET supplied == "poll_status_every_n_seconds" \in DOMAIN kwargs
        p == kwargs.poll_status_every_n_seconds
    IN  /\ (supplied /\ p <= 5) => sleep_time = 5
        /\ (supplied /\ p > 5) => sleep_time = p
        /\ ~supplied => sleep_time = 60
        /\ \A i \in DOMAIN trace : trace[i].op = "sleep" => trace[i].arg = sleep_time

\* C6's case: a negative value supplied, and a sleep of 5 seconds done.
C6_Witness ==
  /\ "poll_status_every_n_seconds" \in DOMAIN kwargs
  /\ kwargs.poll_status_every_n_seconds = -2
  /\ NumOps("sleep") > 0
  /\ sleep_time = 5

\* C7: every GET is immediately preceded by exactly one sleep of the effective
\* interval, every sleep of the invocation has that length, and outside the
\* gap between a sleep and its GET the sleeps and the GETs are equal in number.
C7_SleepBeforeEveryGet ==
  LET interval == IF poll_status_every_n_seconds > 5
                  THEN poll_status_every_n_seconds ELSE 5
  IN  /\ \A i \in DOMAIN trace :
           trace[i].op = "GET" =>
             /\ i > 1
             /\ trace[i - 1].op = "sleep"
             /\ trace[i - 1].arg = interval
             /\ i > 2 => trace[i - 2].op # "sleep"
      /\ \A i \in DOMAIN trace : trace[i].op = "sleep" => trace[i].arg = interval
      /\ pc # "get" => NumOps("sleep") = NumOps("GET")
      /\ pc = "get" => NumOps("sleep") = NumOps("GET") + 1

\* C7's case: two polls, each after a sleep of 7 seconds, and the loop left.
C7_Witness ==
  /\ pc = "returned"
  /\ NumOps("GET") = 2
  /\ NumOps("sleep") = 2
  /\ sleep_time = 7

\* A poll response that ends the invocation with an error of the poll step.
C8_FailedPoll(r) ==
  \/ r.status_code # 200
  \/ ~json_loads(r.text).ok
  \/ "data" \notin DOMAIN json_loads(r.text).value

\* C8: at most one POST is issued, and a failed response (trigger not 200,
\* poll not 200, poll body without data) is always the answer to the last
\* request of the invocation: nothing is requested after it.
C8_NoRetry ==
  /\ NumOps("POST") <= 1
  /\ NumOps("GET") = Len(responses)
  /\ (NumOps("POST") = 1 /\ response.status_code # 200) =>
       (NumOps("GET") = 0 /\ pc = "raised")
  /\ \A i \in DOMAIN responses :
       C8_FailedPoll(responses[i]) =>
         (i = Len(responses) /\ pc = "raised")

\* C8's case: a second poll answered 500, after which the invocation is over.
C8_Witness ==
  /\ pc = "raised"
  /\ Len(responses) = 2
  /\ responses[2].status_code = 500
  /\ NumOps("GET") = 2
  /\ NumOps("POST") = 1

\* C9: an invocation that ended either returned the data object of a terminal
\* poll response and raised nothing, or raised and returned nothing; a poll
\* that fails after earlier "working" polls raises, and nothing is returned.
C9_ReturnOrRaise ==
  /\ pc = "returned" =>
       /\ raised = NoError
       /\ responses # <<>>
       /\ TerminalResponse(responses[Len(responses)])
       /\ returned = DataOf(responses[Len(responses)])
  /\ pc = "raised" => (raised.type # "" /\ returned = EmptyDict)
  /\ pc \notin { "returned", "raised" } => (raised = NoError /\ returned = EmptyDict)
  /\ (Len(responses) >= 2 /\ ~HasStatus(responses[Len(responses)])) =>
       (pc = "raised" /\ raised.type # "" /\ returned = EmptyDict)

\* C9's case: two "working" polls, then a 200 answer without data.
C9_Witness ==
  /\ pc = "raised"
  /\ Len(responses) = 3
  /\ WorkingResponse(responses[1])
  /\ WorkingResponse(responses[2])
  /\ responses[3] = [status_code |-> 200, text |-> "{\"status\":\"not_found\"}"]
  /\ result = [status |-> "working"]
  /\ returned = EmptyDict

\* C10: when the trigger POST answers 200 with a JSON body that has no
\* data.sync_run_id, run raises a ValueError, the class it raises for a
\* trigger that is not 200, and issues no GET.
C10_MalformedTriggerIsRemoteServiceError ==
  ( /\ NumOps("log") > 0
    /\ response.status_code = 200
    /\ json_loads(response.text).ok
    /\ \/ "data" \notin DOMAIN json_loads(response.text).value
       \/ "sync_run_id" \notin DOMAIN json_loads(response.text).value.data ) =>
    /\ pc = "raised"
    /\ raised.type = "ValueError"
    /\ NumOps("GET") = 0

C12_TerminalStatusReturnsNormally ==
  (responses # <<>> /\ TerminalResponse(responses[Len(responses)])) =>
    /\ pc \in { "finish", "returned" }
    /\ raised = NoError
    /\ pc = "finish" => (ENABLED Finish /\ ~ENABLED Sleep /\ ~ENABLED Get)
    /\ pc = "returned" =>
         returned.status = DataOf(responses[Len(responses)]).status

\* C12's case: a failed sync comes back as a returned payload.
C12_Witness ==
  /\ pc = "returned"
  /\ raised = NoError
  /\ responses[Len(responses)].text = "{\"data\":{\"status\":\"failed\",\"error_message\":\"boom\"}}"
  /\ returned = [status |-> "failed", error_message |-> "boom"]

\* Every poll so far was answered HTTP 200 with status "working".
C13_AllWorking == \A i \in DOMAIN responses : WorkingResponse(responses[i])

\* C13: the loop stops only on what the remote answers.  While every poll has
\* been answered "working" the invocation has neither returned nor raised and
\* its next step, the sleep or the request, is enabled (the sleep up to the
\* bound MaxPolls of the model, which the code does not have); a poll answered
\* otherwise ends the loop at that poll.
C13_LoopEndsOnlyOnAnswer ==
  /\ (responses # <<>> /\ C13_AllWorking) =>
       /\ pc \in { "sleep", "get" }
       /\ raised = NoError
       /\ returned = EmptyDict
       /\ (pc = "sleep" /\ Len(responses) < MaxPolls) => ENABLED Sleep
       /\ pc = "get" => ENABLED Get
       /\ ~ENABLED Finish
  /\ (responses # <<>> /\ ~WorkingResponse(responses[Len(responses)])) =>
       /\ pc \in { "finish", "returned", "raised" }
       /\ NumOps("GET") = Len(responses)
       /\ ~ENABLED Sleep
       /\ ~ENABLED Get
       /\ \A i \in 1..(Len(responses) - 1) : WorkingResponse(responses[i])

\* C13's case: as many polls as the model allows, all answered "working", and
\* the invocation still in its loop.
C13_Witness ==
  /\ pc = "sleep"
  /\ Len(responses) = MaxPolls
  /\ NumOps("GET") = MaxPolls
  /\ C13_AllWorking
  /\ raised = NoError

\* The secret embedded in a trigger URL: what stands between the fixed prefix
\* (28 characters) and the "@" that starts the host, the last "@" of the URL.
C14_EmbeddedSecret(s) ==
  LET lastAt == SetMax({ i \in DOMAIN s : s[i] = "@" })
  IN  SubSeq(s, 29, lastAt - 1)

\* The status endpoint of a secret and a run identifier, character by character.
C14_StatusEndpoint(sec, run_id) ==
  <<"h","t","t","p","s",":","/","/","b","e","a","r","e","r",":","s","e","c",
    "r","e","t","-","t","o","k","e","n",":">>
  \o sec \o
  <<"@","a","p","p",".","g","e","t","c","e","n","s","u","s",".","c","o","m",
    "/","a","p","i","/","v","1","/","s","y","n","c","_","r","u","n","s","/">>
  \o run_id

\* C14: the POST, the first request, goes to the api_trigger string as the
\* caller (or the task default) gave it; a GET is issued only after the POST
\* was answered 200 with a data.sync_run_id, and every GET goes to the status
\* endpoint built from the secret of api_trigger and that run identifier.
C14_RequestsGoToTheirEndpoints ==
  /\ \A i \in DOMAIN trace :
       trace[i].op = "POST" =>
         /\ i = 1
         /\ trace[i].arg = api_trigger
         /\ trace[i].arg = IF kwargs.api_trigger = None
                           THEN self_api_trigger ELSE kwargs.api_trigger
  /\ \A i \in DOMAIN trace :
       trace[i].op = "GET" =>
         /\ trace[1].op = "POST"
         /\ response.status_code = 200
         /\ json_loads(response.text).ok
         /\ "data" \in DOMAIN json_loads(response.text).value
         /\ "sync_run_id" \in DOMAIN json_loads(response.text).value.data
         /\ trace[i].arg =
              C14_StatusEndpoint(C14_EmbeddedSecret(api_trigger),
                                 json_loads(response.text).value.data.sync_run_id)

\* C14's case: two GETs for run 94 with the secret a@b.
C14_Witness ==
  /\ NumOps("GET") = 2
  /\ \A i \in DOMAIN trace :
       trace[i].op = "GET" =>
         trace[i].arg =
           <<"h","t","t","p","s",":","/","/","b","e","a","r","e","r",":","s","e","c",
             "r","e","t","-","t","o","k","e","n",":","a","@","b","@","a","p","p",".",
             "g","e","t","c","e","n","s","u","s",".","c","o","m","/","a","p","i","/",
             "v","1","/","s","y","n","c","_","r","u","n","s","/","9","4">>

\* The trigger shape read strictly: a non-empty secret, a non-empty run of
\* decimal digits, nothing after "/trigger".
C15_StrictTriggerShape(s) ==
  LET P == <<"h","t","t","p","s",":","/","/","b","e","a","r","e","r",":",
             "s","e","c","r","e","t","-","t","o","k","e","n",":">>
      H == <<"@","a","p","p",".","g","e","t","c","e","n","s","u","s",".","c","o","m",
             "/","a","p","i","/","v","1","/","s","y","n","c","s","/">>
      T == <<"/","t","r","i","g","g","e","r">>
      fixed == Len(P) + Len(H) + Len(T)
  IN  \E a \in 1..(Len(s) - fixed - 1) :
        LET b == Len(s) - fixed - a
        IN  /\ \A j \in (Len(P) + a + Len(H) + 1)..(Len(P) + a + Len(H) + b) : IsDigit(s[j])
            /\ s = P \o SubSeq(s, Len(P) + 1, Len(P) + a) \o H
                     \o SubSeq(s, Len(P) + a + Len(H) + 1, Len(P) + a + Len(H) + b) \o T

\* A valid trigger endpoint followed by one or more extra characters.
C15_ValidThenExtra(s) ==
  /\ ~C5_HasTriggerShape(s)
  /\ \E n \in 1..(Len(s) - 1) : C15_StrictTriggerShape(SubSeq(s, 1, n))

\* C15: validation matches the whole string: an api_trigger that is a valid
\* trigger endpoint followed by extra characters is rejected with the
\* ValueError of line 68 and no POST is issued.
C15_WholeStringValidated ==
  ( /\ pc \notin { "idle", "check_trigger", "match", "post" }
    /\ api_trigger \notin { None, <<>> }
    /\ C15_ValidThenExtra(api_trigger) ) =>
    /\ pc = "raised"
    /\ ConfigurationError(raised)
    /\ NumOps("POST") = 0

\* C16: an api_trigger that passed validation has a sync identifier that is a
\* non-empty string of decimal digits and a non-empty secret: no POST is sent
\* for an endpoint whose identifier or secret is empty.
C16_NoPostWithEmptyParts ==
  NumOps("POST") > 0 =>
    /\ sync_id # <<>>
    /\ \A i \in DOMAIN sync_id : IsDigit(sync_id[i])
    /\ secret # <<>>

\* C17: a poll answered HTTP 200 with a data object that has no status makes
\* run raise a ValueError, the class it raises for a poll body without data;
\* nothing is returned and no further request follows.
C17_MissingStatusIsRemoteServiceError ==
  \A i \in DOMAIN responses :
    ( /\ responses[i].status_code = 200
      /\ json_loads(responses[i].text).ok
      /\ "data" \in DOMAIN json_loads(responses[i].text).value
      /\ "status" \notin DOMAIN DataOf(responses[i]) ) =>
      /\ i = Len(responses)
      /\ NumOps("GET") = Len(responses)
      /\ pc = "raised"
      /\ raised.type = "ValueError"
      /\ returned = EmptyDict

\* Whether event i of the trace is the log record with message m.
C18_IsLog(i, m) == trace[i].op = "log" /\ trace[i].arg[1] = m
C18_NumLogs(m) == Cardinality({ i \in DOMAIN trace : C18_IsLog(i, m) })

\* The response to the GET at position i of the trace.
C18_ResponseOfGet(i) ==
  responses[Cardinality({ j \in 1..i : trace[j].op = "GET" })]

\* C18: a "still running" record follows each GET answered "working" and no
\* other event; the "finished" record and the record with the log URL are
\* emitted exactly once each, in that order and last, by an invocation that
\* left the loop on a terminal status, and not at all by any other, one that
\* ended with an error included.
C18_ObservationsTrackTheLoop ==
  /\ C18_NumLogs(LOG_RUNNING) =
       Cardinality({ i \in DOMAIN responses : WorkingResponse(responses[i]) })
  /\ \A i \in DOMAIN trace :
       C18_IsLog(i, LOG_RUNNING) =>
         /\ i > 1
         /\ trace[i - 1].op = "GET"
         /\ WorkingResponse(C18_ResponseOfGet(i - 1))
  /\ \A i \in DOMAIN trace :
       (trace[i].op = "GET" /\ WorkingResponse(C18_ResponseOfGet(i))) =>
         (i < Len(trace) /\ C18_IsLog(i + 1, LOG_RUNNING))
  /\ pc = "returned" =>
       /\ C18_NumLogs(LOG_FINISHED) = 1
       /\ C18_NumLogs(LOG_DETAILS) = 1
       /\ C18_IsLog(Len(trace) - 1, LOG_FINISHED)
       /\ C18_IsLog(Len(trace), LOG_DETAILS)
       /\ TerminalResponse(responses[Len(responses)])
  /\ pc # "returned" =>
       /\ C18_NumLogs(LOG_FINISHED) = 0
       /\ C18_NumLogs(LOG_DETAILS) = 0

\* C18's case: two "working" polls and a terminal one: two "still running"
\* records, then the two closing records.
C18_Witness ==
  /\ pc = "returned"
  /\ Len(responses) = 3
  /\ C18_NumLogs(LOG_RUNNING) = 2
  /\ C18_NumLogs(LOG_FINISHED) = 1
  /\ C18_NumLogs(LOG_DETAILS) = 1

\* C18's other case: an invocation that ended with an error after a "working"
\* poll emitted one "still running" record and neither closing record.
C18_WitnessError ==
  /\ pc = "raised"
  /\ Len(responses) = 2
  /\ C18_NumLogs(LOG_RUNNING) = 1
  /\ C18_NumLogs(LOG_FINISHED) = 0

====
